---- MODULE Spec2Model ----
(***************************************************************************)
(* Wayland client of gpui's Linux platform: the Window Table, the focus    *)
(* fields, the per-window configure / frame-callback state and the event   *)
(* loop that drives the Dispatch handlers.                                 *)
(*                                                                         *)
(* Every Dispatch<..>::event handler is one action.  `ev` is the message   *)
(* (or toolkit call) the last step handled and `out` is what that step     *)
(* did, in program order: the protocol requests it wrote to the            *)
(* connection, the toolkit callbacks it invoked and the Window Table       *)
(* removal.  A panic (index of a missing SlotMap key, unwrap of None, a    *)
(* failed assert_eq!) is recorded in `fault` and ends the process.         *)
(***************************************************************************)
EXTENDS Integers, Sequences, FiniteSets, TLC

\* ------------------------------------------------------------------ bounds

\* Number of windows the toolkit opens in one run (SlotMap keys 1..MaxWindows).
MaxWindows == 2

\* Cap on the wl_callback objects one window may have alive at once.
MaxFrameCallbacks == 2

\* Number of wl_seat globals the compositor advertises in one run.
MaxSeats == 2

\* Cap on the wl_keyboard (and on the wl_pointer) proxies made for one seat.
MaxProxies == 2

\* Cap on the messages one wakeup of the Wayland source finds pending.
MaxPending == 2

\* Serials the compositor uses for configure and ping.
Serials == {7, 9}

\* Sizes a toplevel configure may carry (0 means "client decides").
ConfigureWidths == {0, 640}
ConfigureHeights == {0, 480}

\* Keys of wl_keyboard Key events, each named by the code point
\* key_get_utf32 gives for it under the keymap: a key with no text (0), Tab,
\* the letter a, and Delete (127).
Keys == {0, 9, 97, 127}

\* The key the slices that do not look at the text press and release.
LetterKeys == {97}

\* Surface-local coordinates of pointer events.
Positions == {<<12, 34>>, <<20, 40>>}

\* WindowOptions.bounds given to open_window.
WindowBoundsOptions == {"Maximized", "Fullscreen", "Fixed"}

\* The bounds carried by WindowBounds::Fixed in this model: Pixels (f32)
\* values, written in tenths of a pixel, here origin (-10.5, 20.7) and
\* size 800.5 x 600.
FixedBounds == [origin |-> <<-105, 207>>, size |-> <<8005, 6000>>]

\* Key states and keymap formats of wl_keyboard; "Unknown" is a format value
\* outside the protocol's enum.
KeyStates == {"Pressed", "Released"}
KeymapFormats == {"XkbV1", "NoKeymap", "Unknown"}

\* Modifier masks a wl_keyboard modifiers event may carry, and its groups.
DepressedMasks == {{}, {"Shift"}, {"Control", "Mod4"}}
LatchedMasks == {{}, {"Mod1"}}
LockedMasks == {{}, {"Lock"}}
Groups == {0, 1}

\* Interfaces of the globals the registry announces.
Interfaces == {"wl_seat", "wl_output"}

\* The capability sets a seat announces.
Capabilities == SUBSET {"Keyboard", "Pointer"}

\* Buttons (BTN_LEFT, BTN_RIGHT, and one linux_button_to_gpui does not map),
\* button states, axes, raw axis values and relative directions of wl_pointer.
Buttons == {"Left", "Right", "Other"}
ButtonStates == {"Pressed", "Released"}
Axes == {"VerticalScroll", "HorizontalScroll"}
AxisValues == {15, -10}
Directions == {"Identical", "Inverted"}

\* --------------------------------------------------------------- constants

FallbackWidth == 1280
FallbackHeight == 720
PlaceholderSize == 500

\* f64::default(), the value #[derive(Default)] gives scroll_direction.
DefaultScrollDirection == 0

\* Tenths in one pixel, the unit the Pixels values above are written in.
PixelUnit == 10

\* The closures held by Callbacks.request_frame: none, the one the toolkit
\* registers for a window, and one a running callback registers in its place.
NoCallback == 0
ToolkitCallback == 1
ReplacementCallback == 2

WindowIds == 1..MaxWindows
SeatIds == 1..MaxSeats
NoWindow == 0

\* An xkb::State fresh from State::new: no modifier in any mask, group 0.
NoMasks == [depressed |-> {}, latched |-> {}, locked |-> {}, group |-> 0]
NoLocation == <<>>
CallbackNames == {"request_frame", "input", "resize", "moved"}

\* ------------------------------------------------------------------- state

VARIABLES
    pc,                        \* where the main thread is: launch, poll, dispatch, post, stopped
    windows,                   \* WaylandClientState.windows: the keys present in the SlotMap
    next_window_id,            \* the key the SlotMap hands to the next insert_with_key
    frame_callback_requested,  \* per window: the flag read and set by the xdg_surface handler
    frame_callbacks,           \* per window: wl_callback objects requested and not yet done
    configured,                \* windows whose xdg_surface has had a Configure handled
    bounds,                    \* per window: bounds.size as <<width, height>>
    origin,                    \* per window: bounds.origin as <<x, y>>
    callbacks,                 \* per window: the entries of Callbacks that are Some
    request_frame,             \* per window: the closure in Callbacks.request_frame (0 = None)
    input_returns,             \* per window: what the closure in Callbacks.input returns
    input_handler,             \* the windows whose inner.input_handler is Some
    mouse_focused_window,      \* WaylandClientState.mouse_focused_window (NoWindow = None)
    keyboard_focused_window,   \* WaylandClientState.keyboard_focused_window
    mouse_location,            \* WaylandClientState.mouse_location (NoLocation = None)
    keymap_state,              \* whether keymap_state is Some
    xkb_state,                 \* the masks held by the xkb::State in keymap_state
    modifiers,                 \* the Modifiers flags that are true
    button_pressed,            \* WaylandClientState.button_pressed ("None" = None)
    scroll_direction,          \* the scroll-direction multiplier
    seats,                     \* number of entries of WaylandClientState.seats
    seat_keyboards,            \* per seat: wl_keyboard proxies created by get_keyboard
    seat_pointers,             \* per seat: wl_pointer proxies created by get_pointer
    wire,                      \* the messages pending when the source last woke up
    pending,                   \* those of them dispatch_pending has not taken yet
    handled,                   \* those of them whose handler has been called, in order
    quit_requested,            \* LinuxPlatformState.quit_requested
    fault,                     \* "none", or the panic or the deadlock that ended the run
    ev,                        \* the message or call handled by the last step
    out                        \* what the last step did, in program order

vars == <<pc, windows, next_window_id, frame_callback_requested, frame_callbacks,
          configured, bounds, origin, callbacks, request_frame, input_returns, input_handler, mouse_focused_window,
          keyboard_focused_window,
          mouse_location, keymap_state, xkb_state, modifiers, button_pressed,
          scroll_direction, seats, seat_keyboards, seat_pointers, wire, pending,
          handled, quit_requested, fault, ev, out>>

\* The part of the state that is WaylandClientState and what it owns.
clientState == <<windows, next_window_id, frame_callback_requested, frame_callbacks,
                 configured, bounds, origin, callbacks, request_frame, input_returns, input_handler,
                 mouse_focused_window, keyboard_focused_window,
                 mouse_location, keymap_state, xkb_state, modifiers, button_pressed,
                 scroll_direction, seats, seat_keyboards, seat_pointers,
                 quit_requested>>

windowVars == <<windows, next_window_id, frame_callback_requested, frame_callbacks,
                configured, bounds, origin, callbacks, request_frame, input_returns, input_handler>>
inputVars == <<mouse_focused_window, keyboard_focused_window, mouse_location,
               keymap_state, xkb_state, modifiers, button_pressed, scroll_direction>>
registryVars == <<seats, seat_keyboards, seat_pointers>>
queueVars == <<wire, pending, handled>>

\* One entry of `out`.  For an input event a, b are its position and the
\* remaining fields are those of the PlatformInput variant (defaults here).
Did(op, w, a, b) ==
    [op |-> op, win |-> w, a |-> a, b |-> b, scale |-> 0,
     button |-> "None", modifiers |-> {}, is_held |-> FALSE, click_count |-> 0,
     delta |-> <<0, 0>>, ime_key |-> <<>>]

\* The message or call a step handles; stale: it names a window key that
\* is not in the Window Table when the step starts.
Event(type, w, a, b, stale) == [type |-> type, win |-> w, a |-> a, b |-> b, stale |-> stale]

\* Windows ever created by open_window.
Created == 1..(next_window_id - 1)

Running == fault = "none"

\* ------------------------------------------------------------ construction

\* WaylandWindowState is built with the flag clear (the field's initialiser
\* is not among the sources; the handler's own name for the old value,
\* frame_callback_already_requested, and the spec's "if no frame callback is
\* currently outstanding, request one and mark it" fix it).
InitialFrameCallbackRequested == FALSE

Init ==
    /\ pc = "launch"
    /\ windows = {}
    /\ next_window_id = 1
    /\ frame_callback_requested = [w \in WindowIds |-> InitialFrameCallbackRequested]
    /\ frame_callbacks = [w \in WindowIds |-> 0]
    /\ configured = {}
    /\ bounds = [w \in WindowIds |-> <<0, 0>>]
    /\ origin = [w \in WindowIds |-> <<0, 0>>]
    /\ callbacks = [w \in WindowIds |-> {}]
    /\ request_frame = [w \in WindowIds |-> NoCallback]
    /\ input_returns = [w \in WindowIds |-> FALSE]
    /\ input_handler = {}
    /\ mouse_focused_window = NoWindow
    /\ keyboard_focused_window = NoWindow
    /\ mouse_location = NoLocation
    /\ keymap_state = FALSE
    /\ xkb_state = NoMasks
    /\ modifiers = {}
    /\ button_pressed = "None"
    /\ scroll_direction = DefaultScrollDirection
    /\ seats \in 0..1
    /\ seat_keyboards = [s \in SeatIds |-> 0]
    /\ seat_pointers = [s \in SeatIds |-> 0]
    /\ wire = <<>>
    /\ pending = <<>>
    /\ handled = <<>>
    /\ quit_requested = FALSE
    /\ fault = "none"
    /\ ev = Event("new", NoWindow, 0, 0, FALSE)
    /\ out = <<>>

\* ------------------------------------------------------------- event loop

\* A step of the loop itself handles no message and writes nothing.
LoopStep(type) ==
    /\ ev' = Event(type, NoWindow, 0, 0, FALSE)
    /\ out' = <<>>
    /\ UNCHANGED <<clientState, fault, queueVars>>

\* run(): on_finish_launching has returned, event_loop.run starts polling.
Run ==
    /\ Running /\ pc = "launch"
    /\ pc' = "poll"
    /\ LoopStep("run")

\* The connection became readable: the source callback locks the client
\* state and calls dispatch_pending.
DispatchPending ==
    /\ Running /\ pc = "poll"
    /\ pc' = "dispatch"
    /\ LoopStep("dispatch_pending")

\* dispatch_pending returns and the lock guard is dropped; the other sources
\* of the same loop iteration (the main-thread runnables) run next.  It
\* returns when its queue is empty and no handler is running.
DispatchReturn ==
    /\ Running /\ pc = "dispatch"
    /\ pending = <<>> /\ ev.type # "take"
    /\ pc' = "post"
    /\ LoopStep("dispatch_return")

\* A loop iteration woken by the runnable channel alone.
RunnableWakeup ==
    /\ Running /\ pc = "poll"
    /\ pc' = "post"
    /\ LoopStep("runnable")

\* The closure given to event_loop.run, called after every iteration.
LoopCallback ==
    /\ Running /\ pc = "post"
    /\ pc' = IF quit_requested THEN "stopped" ELSE "poll"
    /\ LoopStep("loop_callback")

\* The toolkit runs on the main thread outside dispatch_pending: in
\* on_finish_launching and in the runnables of a loop iteration.
ToolkitRuns == Running /\ pc \in {"launch", "post"}

\* A handler runs inside dispatch_pending.
Dispatching == Running /\ pc = "dispatch"

\* ------------------------------------------------------------------ locks

\* WaylandClient.state is locked by the source callback for the length of
\* its dispatch_pending call and by nothing else that spans a step.
StateLockHeld == pc = "dispatch"

\* Whether the callbacks mutex of a window is held while the named function
\* calls a callback: update() drops its guard first, resize() keeps it.
CallbacksLockHeld(caller) == caller = "resize"

\* A mutex that lets the thread holding it lock it again.
LockBlocks_Reentrant(held) == FALSE

\* parking_lot::Mutex::lock called on the loop thread: it blocks while the
\* mutex is held, and the holder being the same thread it blocks for ever.
LockBlocks(held) == held

\* The entries of a handler's log up to its first call of `op`, and the
\* entries after that call.
Through(effects, op) ==
    SubSeq(effects, 1,
           CHOOSE i \in 1..Len(effects) :
               /\ effects[i].op = op
               /\ \A j \in 1..(i - 1) : effects[j].op # op)

Following(effects, op) ==
    SubSeq(effects, Len(Through(effects, op)) + 1, Len(effects))

\* A message of the event queue: the object it is for and its arguments.
Message(type, w, serial) == [type |-> type, win |-> w, serial |-> serial]

\* The messages the queue is followed for: ping of the xdg_wm_base, configure
\* of a window's xdg_surface, close of a window's xdg_toplevel.
Messages ==
    {Message("ping", NoWindow, serial) : serial \in Serials}
    \cup {Message("xdg_surface_configure", w, 7) : w \in WindowIds}
    \cup {Message("xdg_toplevel_close", w, 0) : w \in WindowIds}

\* The non-empty sequences of at most MaxPending messages.
Batches == UNION {[1..n -> Messages] : n \in 1..MaxPending}

\* The connection became readable with this batch pending, all of it for
\* objects that exist: the source callback locks the client state and calls
\* dispatch_pending.
SourceReadable(batch) ==
    /\ Running /\ pc = "poll"
    /\ \A i \in 1..Len(batch) : batch[i].win \in Created \cup {NoWindow}
    /\ pc' = "dispatch"
    /\ wire' = batch
    /\ pending' = batch
    /\ handled' = <<>>
    /\ ev' = Event("dispatch_pending", NoWindow, 0, 0, FALSE)
    /\ out' = <<>>
    /\ UNCHANGED <<clientState, fault>>

\* dispatch_pending taking its queue from the back.
NextMessage_Last(queue) == Len(queue)

\* The position of the queue dispatch_pending takes next: the front.
NextMessage(queue) == 1

\* dispatch_pending takes the next message off its queue to call the handler
\* of the message's object with it.
TakeMessage ==
    /\ Dispatching
    /\ pending # <<>> /\ ev.type # "take"
    /\ LET i == NextMessage(pending) IN
        /\ handled' = Append(handled, pending[i])
        /\ pending' = SubSeq(pending, 1, i - 1) \o SubSeq(pending, i + 1, Len(pending))
    /\ ev' = Event("take", NoWindow, 0, 0, FALSE)
    /\ out' = <<>>
    /\ UNCHANGED <<pc, clientState, fault, wire>>

\* The handler about to run is the one for this message.
Taken(message) ==
    /\ ev.type = "take"
    /\ handled # <<>>
    /\ handled[Len(handled)] = message

\* ------------------------------------------------------------- open_window

\* The closure committing the surface before it has a role.
OpenWindowRequests_CommitFirst(key) ==
    << Did("create_surface", key, 0, 0),
       Did("commit", key, 0, 0),
       Did("get_xdg_surface", key, 0, 0),
       Did("get_toplevel", key, 0, 0) >>

\* The requests of the insert_with_key closure, in order.
OpenWindowRequests(key) ==
    << Did("create_surface", key, 0, 0),
       Did("get_xdg_surface", key, 0, 0),
       Did("get_toplevel", key, 0, 0),
       Did("commit", key, 0, 0) >>

\* WaylandWindowState::new with the two requests exchanged.
WindowNewRequests_Swapped(key, option) ==
    IF option = "Maximized" THEN << Did("set_fullscreen", key, 0, 0) >>
    ELSE IF option = "Fullscreen" THEN << Did("set_maximized", key, 0, 0) >>
    ELSE <<>>

\* WaylandWindowState::new: the request for maximized / fullscreen bounds.
WindowNewRequests(key, option) ==
    IF option = "Maximized" THEN << Did("set_maximized", key, 0, 0) >>
    ELSE IF option = "Fullscreen" THEN << Did("set_fullscreen", key, 0, 0) >>
    ELSE <<>>

\* `p.0 as i32`: the f32 is truncated toward zero.
ToIntegerPixels(tenths) ==
    IF tenths >= 0 THEN tenths \div PixelUnit ELSE -((-tenths) \div PixelUnit)

\* WaylandWindowState::new: the interim geometry.
InitialBounds(option) ==
    IF option \in {"Fullscreen", "Maximized"}
    THEN [origin |-> <<0, 0>>, size |-> <<PlaceholderSize, PlaceholderSize>>]
    ELSE [origin |-> <<ToIntegerPixels(FixedBounds.origin[1]),
                       ToIntegerPixels(FixedBounds.origin[2])>>,
          size |-> <<ToIntegerPixels(FixedBounds.size[1]),
                     ToIntegerPixels(FixedBounds.size[2])>>]

open_window(option) ==
    /\ ToolkitRuns
    /\ ~LockBlocks(StateLockHeld)
    /\ next_window_id <= MaxWindows
    /\ LET key == next_window_id IN
        /\ windows' = windows \cup {key}
        /\ next_window_id' = key + 1
        /\ bounds' = [bounds EXCEPT ![key] = InitialBounds(option).size]
        /\ origin' = [origin EXCEPT ![key] = InitialBounds(option).origin]
        /\ ev' = [type |-> "open_window", win |-> key, a |-> 0, b |-> 0,
                  stale |-> FALSE, option |-> option]
        /\ out' = OpenWindowRequests(key) \o WindowNewRequests(key, option)
    /\ UNCHANGED <<pc, frame_callback_requested, frame_callbacks, configured,
                   callbacks, request_frame, input_returns, input_handler, inputVars, quit_requested, fault,
                   registryVars, queueVars>>

\* on_request_frame, on_input, on_resize, on_moved: store the callback.
on_callback(w, name) ==
    /\ ToolkitRuns
    /\ w \in Created
    /\ name \notin callbacks[w]
    /\ callbacks' = [callbacks EXCEPT ![w] = @ \cup {name}]
    /\ request_frame' = IF name = "request_frame"
                        THEN [request_frame EXCEPT ![w] = ToolkitCallback]
                        ELSE request_frame
    /\ ev' = Event("on_" \o name, w, 0, 0, FALSE)
    /\ out' = <<>>
    /\ UNCHANGED <<pc, windows, next_window_id, frame_callback_requested,
                   frame_callbacks, configured, bounds, origin, input_returns,
                   input_handler, inputVars, quit_requested, fault,
                   registryVars, queueVars>>

\* on_input with a closure that returns `returns` for every event (the one
\* on_callback stores returns false).
on_input(w, returns) ==
    /\ ToolkitRuns
    /\ w \in Created
    /\ "input" \notin callbacks[w]
    /\ callbacks' = [callbacks EXCEPT ![w] = @ \cup {"input"}]
    /\ input_returns' = [input_returns EXCEPT ![w] = returns]
    /\ ev' = Event("on_input", w, 0, 0, FALSE)
    /\ out' = <<>>
    /\ UNCHANGED <<pc, windows, next_window_id, frame_callback_requested,
                   frame_callbacks, configured, bounds, origin, request_frame,
                   input_handler, inputVars, quit_requested, fault,
                   registryVars, queueVars>>

\* WaylandWindow::set_input_handler.
set_input_handler(w) ==
    /\ ToolkitRuns
    /\ w \in Created
    /\ input_handler' = input_handler \cup {w}
    /\ ev' = Event("set_input_handler", w, 0, 0, FALSE)
    /\ out' = <<>>
    /\ UNCHANGED <<pc, windows, next_window_id, frame_callback_requested,
                   frame_callbacks, configured, bounds, origin, callbacks,
                   request_frame, input_returns, inputVars, quit_requested,
                   fault, registryVars, queueVars>>

\* WaylandWindow::take_input_handler.
take_input_handler(w) ==
    /\ ToolkitRuns
    /\ w \in Created
    /\ input_handler' = input_handler \ {w}
    /\ ev' = Event("take_input_handler", w, 0, 0, FALSE)
    /\ out' = <<>>
    /\ UNCHANGED <<pc, windows, next_window_id, frame_callback_requested,
                   frame_callbacks, configured, bounds, origin, callbacks,
                   request_frame, input_returns, inputVars, quit_requested,
                   fault, registryVars, queueVars>>

\* ------------------------------------------------------- window operations

\* update() that forgets to call the request-frame callback.
update_Missing(w) == <<>>

\* update() calling the request-frame callback twice.
update_Twice(w) ==
    IF "request_frame" \in callbacks[w]
    THEN << Did("cb.request_frame", w, 0, 0), Did("cb.request_frame", w, 0, 0) >>
    ELSE <<>>

\* WaylandWindowState::update: the request-frame callback, when one is set.
update(w) ==
    IF "request_frame" \in callbacks[w]
    THEN << Did("cb.request_frame", w, 0, 0) >>
    ELSE <<>>

\* resize() calling the callbacks before the renderer is told the size.
resize_CallbackFirst(w, width, height) ==
    (IF "resize" \in callbacks[w]
     THEN << [Did("cb.resize", w, width, height) EXCEPT !.scale = 1] >> ELSE <<>>)
    \o (IF "moved" \in callbacks[w]
        THEN << Did("cb.moved", w, 0, 0) >> ELSE <<>>)
    \o << Did("update_drawable_size", w, width, height) >>

\* WaylandWindowState::resize, after the size is stored: the renderer first,
\* then the resize callback (scale 1.0), then the moved callback.
resize(w, width, height) ==
    << Did("update_drawable_size", w, width, height) >>
    \o (IF "resize" \in callbacks[w]
        THEN << [Did("cb.resize", w, width, height) EXCEPT !.scale = 1] >> ELSE <<>>)
    \o (IF "moved" \in callbacks[w]
        THEN << Did("cb.moved", w, 0, 0) >> ELSE <<>>)

\* WaylandWindow::content_size: the stored size as Pixels (in tenths, as
\* FixedBounds is); `as f32` is exact for an i32 of this magnitude.
content_size(w) == << bounds[w][1] * PixelUnit, bounds[w][2] * PixelUnit >>

\* WaylandWindow::scale_factor.
scale_factor == 1

\* A PlatformInput value: the variant, the position and the fields that
\* differ from the defaults of Did.
PlatformInput(kind, position) == Did(kind, NoWindow, position[1], position[2])

\* What handle_input does with the input handler of the window: a KeyDown
\* with an ime_key is given to an installed handler.
InputHandlerEffects(w, input) ==
    IF input.op = "KeyDown" /\ w \in input_handler /\ input.ime_key # <<>>
    THEN << [Did("replace_text_in_range", w, 0, 0) EXCEPT !.ime_key = input.ime_key] >>
    ELSE <<>>

\* handle_input going on to the input handler whatever the callback returned.
handle_input_IgnoresResult(w, input) ==
    << [input EXCEPT !.op = "handle_input." \o input.op, !.win = w] >>
    \o (IF "input" \in callbacks[w]
        THEN << [input EXCEPT !.op = "cb.input", !.win = w] >> ELSE <<>>)
    \o InputHandlerEffects(w, input)

\* WaylandWindowState::handle_input: the call, the input callback when one
\* is set, and the input handler unless the callback returned true.
handle_input(w, input) ==
    << [input EXCEPT !.op = "handle_input." \o input.op, !.win = w] >>
    \o (IF "input" \in callbacks[w]
        THEN << [input EXCEPT !.op = "cb.input", !.win = w] >> ELSE <<>>)
    \o (IF "input" \in callbacks[w] /\ input_returns[w]
        THEN <<>> ELSE InputHandlerEffects(w, input))

\* A handler that panics: what it wrote before the panic stays written.
Panic(kind, event, written) ==
    /\ fault' = kind
    /\ ev' = event
    /\ out' = written
    /\ UNCHANGED <<pc, clientState, queueVars>>

\* ------------------------------------------------- wl_callback (frame done)

\* The Done arm committing before it re-requests and redraws.
CallbackDoneEffects_CommitFirst(w) ==
    << Did("commit", w, 0, 0), Did("frame", w, 0, 0) >> \o update(w)

\* What the Done arm does for a window of the table, in order.
CallbackDoneEffects(w) ==
    << Did("frame", w, 0, 0) >> \o update(w) \o << Did("commit", w, 0, 0) >>

\* Dispatch<WlCallback, WaylandWindowId>: Done.  The compositor fires a
\* wl_callback once, so a Done needs a callback that is still alive.
CallbackDone(w) ==
    /\ Dispatching
    /\ w \in Created
    /\ frame_callbacks[w] > 0
    /\ IF w \notin windows
       THEN Panic("index", Event("callback_done", w, 0, 0, TRUE), <<>>)
       ELSE \* the callback that fired is gone; surface.frame makes a new one
            /\ (frame_callbacks[w] - 1) + 1 <= MaxFrameCallbacks
            /\ frame_callbacks' = [frame_callbacks EXCEPT ![w] = (@ - 1) + 1]
            /\ ev' = Event("callback_done", w, 0, 0, FALSE)
            /\ out' = CallbackDoneEffects(w)
            /\ UNCHANGED <<pc, windows, next_window_id, frame_callback_requested,
                           configured, bounds, origin, callbacks, request_frame, input_returns, input_handler,
                           inputVars, quit_requested,
                           fault, registryVars, queueVars>>

\* update() leaving in place what the callback registered while it ran.
RequestFrameAfterUpdate_KeepNew(taken, registered) == registered

\* Callbacks.request_frame when update() returns: the closure it took out
\* before the call is stored back, over whatever was stored meanwhile.
RequestFrameAfterUpdate(taken, registered) == taken

\* The Done arm for a window whose request-frame callback calls
\* on_request_frame on its own window, which locks the callbacks mutex.
CallbackDoneRegisters(w) ==
    /\ Dispatching
    /\ w \in windows
    /\ frame_callbacks[w] > 0
    /\ "request_frame" \in callbacks[w]
    /\ (frame_callbacks[w] - 1) + 1 <= MaxFrameCallbacks
    /\ frame_callbacks' = [frame_callbacks EXCEPT ![w] = (@ - 1) + 1]
    /\ ev' = Event("callback_done.on_request_frame", w, 0, 0, FALSE)
    /\ LET effects == CallbackDoneEffects(w)
           called == Through(effects, "cb.request_frame")
                         \o << Did("on_request_frame", w, ReplacementCallback, 0) >>
       IN  IF LockBlocks(CallbacksLockHeld("update"))
           THEN /\ fault' = "deadlock"
                /\ out' = called
                /\ request_frame' = [request_frame EXCEPT ![w] = NoCallback]
           ELSE /\ fault' = fault
                /\ out' = called \o Following(effects, "cb.request_frame")
                /\ request_frame' =
                       [request_frame EXCEPT
                            ![w] = RequestFrameAfterUpdate(@, ReplacementCallback)]
    /\ UNCHANGED <<pc, windows, next_window_id, frame_callback_requested,
                   configured, bounds, origin, callbacks, input_returns,
                   input_handler, inputVars, quit_requested, registryVars,
                   queueVars>>

\* ------------------------------------------------ xdg_surface (configure)

\* The Configure arm without its frame_callback_already_requested test.
ConfigureRequestsFrame_Always(w) == TRUE

\* Whether the Configure arm requests a frame callback.
ConfigureRequestsFrame(w) == ~frame_callback_requested[w]

\* The Configure arm with the commit issued before the acknowledgment.
XdgSurfaceConfigureEffects_CommitFirst(w, serial) ==
    << Did("commit", w, 0, 0) >>
    \o (IF ~frame_callback_requested[w] THEN << Did("frame", w, 0, 0) >> ELSE <<>>)
    \o update(w)
    \o << Did("ack_configure", w, serial, 0) >>

\* What the Configure arm does for a window of the table, in order.
XdgSurfaceConfigureEffects(w, serial) ==
    << Did("ack_configure", w, serial, 0) >>
    \o (IF ConfigureRequestsFrame(w) THEN << Did("frame", w, 0, 0) >> ELSE <<>>)
    \o update(w)
    \o << Did("commit", w, 0, 0) >>

\* 1 when an earlier Configure of this xdg_surface was handled, 0 for the first.
Earlier(w) == IF w \in configured THEN 1 ELSE 0

\* Dispatch<xdg_surface::XdgSurface, WaylandWindowId>: Configure.  The event
\* record carries the serial and Earlier(w).
XdgSurfaceConfigure(w, serial) ==
    /\ Dispatching
    /\ w \in Created
    /\ IF w \notin windows
       THEN Panic("index", Event("xdg_surface_configure", w, serial, Earlier(w), TRUE),
                  << Did("ack_configure", w, serial, 0) >>)
       ELSE LET requested == IF ConfigureRequestsFrame(w) THEN 1 ELSE 0 IN
            /\ frame_callbacks[w] + requested <= MaxFrameCallbacks
            /\ frame_callback_requested' = [frame_callback_requested EXCEPT ![w] = TRUE]
            /\ frame_callbacks' = [frame_callbacks EXCEPT ![w] = @ + requested]
            /\ configured' = configured \cup {w}
            /\ ev' = Event("xdg_surface_configure", w, serial, Earlier(w), FALSE)
            /\ out' = XdgSurfaceConfigureEffects(w, serial)
            /\ UNCHANGED <<pc, windows, next_window_id, bounds, origin, callbacks,
                           request_frame, input_returns, input_handler,
                           inputVars, quit_requested, fault, registryVars, queueVars>>

\* The Configure arm for a window whose request-frame callback calls
\* open_window: the callback runs inside dispatch_pending, and open_window
\* starts with state.lock().  The call is logged; what open_window does
\* after the lock is logged only if the lock is acquired.
XdgSurfaceConfigureOpensWindow(w, serial, option) ==
    /\ Dispatching
    /\ w \in windows
    /\ "request_frame" \in callbacks[w]
    /\ next_window_id <= MaxWindows
    /\ LET requested == IF ConfigureRequestsFrame(w) THEN 1 ELSE 0
           effects == XdgSurfaceConfigureEffects(w, serial)
           called == Through(effects, "cb.request_frame")
                         \o << Did("open_window", NoWindow, 0, 0) >>
           key == next_window_id
       IN  /\ frame_callbacks[w] + requested <= MaxFrameCallbacks
           /\ frame_callback_requested' = [frame_callback_requested EXCEPT ![w] = TRUE]
           /\ frame_callbacks' = [frame_callbacks EXCEPT ![w] = @ + requested]
           /\ configured' = configured \cup {w}
           /\ ev' = Event("xdg_surface_configure.open_window", w, serial,
                          Earlier(w), FALSE)
           /\ IF LockBlocks(StateLockHeld)
              THEN /\ fault' = "deadlock"
                   /\ out' = called
                   /\ UNCHANGED <<windows, next_window_id, bounds, origin>>
              ELSE /\ fault' = fault
                   /\ windows' = windows \cup {key}
                   /\ next_window_id' = key + 1
                   /\ bounds' = [bounds EXCEPT ![key] = InitialBounds(option).size]
                   /\ origin' = [origin EXCEPT ![key] = InitialBounds(option).origin]
                   /\ out' = called \o OpenWindowRequests(key)
                                 \o WindowNewRequests(key, option)
                                 \o Following(effects, "cb.request_frame")
    /\ UNCHANGED <<pc, callbacks, request_frame, input_returns, input_handler, inputVars, quit_requested,
                   registryVars, queueVars>>

\* ------------------------------------------------------------ xdg_toplevel

\* The fallback applied only when both dimensions are 0.
ConfigureSize_BothZero(width, height) ==
    IF width = 0 /\ height = 0
    THEN <<FallbackWidth, FallbackHeight>>
    ELSE <<width, height>>

\* The size the Configure arm applies: 0 in either dimension is replaced.
ConfigureSize(width, height) ==
    IF width = 0 \/ height = 0
    THEN <<FallbackWidth, FallbackHeight>>
    ELSE <<width, height>>

\* Dispatch<xdg_toplevel::XdgToplevel, WaylandWindowId>: Configure.
XdgToplevelConfigure(w, width, height) ==
    /\ Dispatching
    /\ w \in Created
    /\ IF w \notin windows
       THEN Panic("index", Event("xdg_toplevel_configure", w, width, height, TRUE), <<>>)
       ELSE LET size == ConfigureSize(width, height) IN
            /\ bounds' = [bounds EXCEPT ![w] = size]
            /\ ev' = Event("xdg_toplevel_configure", w, width, height, FALSE)
            /\ out' = resize(w, size[1], size[2])
            /\ UNCHANGED <<pc, windows, next_window_id, frame_callback_requested,
                           frame_callbacks, configured, origin, callbacks,
                           request_frame, input_returns, input_handler, inputVars,
                           quit_requested, fault, registryVars, queueVars>>

\* The Configure arm for a window whose resize callback calls open_window.
XdgToplevelConfigureOpensWindow(w, width, height, option) ==
    /\ Dispatching
    /\ w \in windows
    /\ "resize" \in callbacks[w]
    /\ next_window_id <= MaxWindows
    /\ LET size == ConfigureSize(width, height)
           effects == resize(w, size[1], size[2])
           called == Through(effects, "cb.resize")
                         \o << Did("open_window", NoWindow, 0, 0) >>
           key == next_window_id
       IN  /\ ev' = Event("xdg_toplevel_configure.open_window", w, width, height,
                          FALSE)
           /\ IF LockBlocks(StateLockHeld)
              THEN /\ fault' = "deadlock"
                   /\ out' = called
                   /\ bounds' = [bounds EXCEPT ![w] = size]
                   /\ UNCHANGED <<windows, next_window_id, origin>>
              ELSE /\ fault' = fault
                   /\ windows' = windows \cup {key}
                   /\ next_window_id' = key + 1
                   /\ bounds' = [bounds EXCEPT ![w] = size,
                                               ![key] = InitialBounds(option).size]
                   /\ origin' = [origin EXCEPT ![key] = InitialBounds(option).origin]
                   /\ out' = called \o OpenWindowRequests(key)
                                 \o WindowNewRequests(key, option)
                                 \o Following(effects, "cb.resize")
    /\ UNCHANGED <<pc, frame_callback_requested, frame_callbacks, configured,
                   callbacks, request_frame, input_returns, input_handler, inputVars, quit_requested,
                   registryVars, queueVars>>

\* The Configure arm for a window whose resize callback calls on_resize on
\* its own window, which locks the callbacks mutex.
XdgToplevelConfigureRegisters(w, width, height) ==
    /\ Dispatching
    /\ w \in windows
    /\ "resize" \in callbacks[w]
    /\ ev' = Event("xdg_toplevel_configure.on_resize", w, width, height, FALSE)
    /\ LET size == ConfigureSize(width, height)
           effects == resize(w, size[1], size[2])
           called == Through(effects, "cb.resize")
                         \o << Did("on_resize", w, 0, 0) >>
       IN  /\ bounds' = [bounds EXCEPT ![w] = size]
           /\ IF LockBlocks(CallbacksLockHeld("resize"))
              THEN /\ fault' = "deadlock"
                   /\ out' = called
              ELSE /\ fault' = fault
                   /\ out' = called \o Following(effects, "cb.resize")
    /\ UNCHANGED <<pc, windows, next_window_id, frame_callback_requested,
                   frame_callbacks, configured, origin, callbacks, request_frame, input_returns, input_handler,
                   inputVars, quit_requested, registryVars, queueVars>>

\* What the Close arm does, in order; the removal is logged only when the
\* key was in the table (SlotMap::remove returns None otherwise).
XdgToplevelCloseEffects(w) ==
    << Did("destroy", w, 0, 0) >>
    \o (IF w \in windows THEN << Did("windows.remove", w, 0, 0) >> ELSE <<>>)

\* The Close arm clearing the table instead of removing one key.
XdgToplevelCloseWindows_Clear(w) == {}

\* The Window Table after the Close arm.
XdgToplevelCloseWindows(w) == windows \ {w}

\* The Close arm requesting quit whatever the table holds.
XdgToplevelCloseQuit_Always(left) == TRUE

\* The quit flag after the Close arm, given the table it left.
XdgToplevelCloseQuit(left) == quit_requested \/ (left = {})

\* Dispatch<xdg_toplevel::XdgToplevel, WaylandWindowId>: Close.
XdgToplevelClose(w) ==
    /\ Dispatching
    /\ w \in Created
    /\ windows' = XdgToplevelCloseWindows(w)
    /\ quit_requested' = XdgToplevelCloseQuit(windows')
    /\ ev' = Event("xdg_toplevel_close", w, 0, 0, w \notin windows)
    /\ out' = XdgToplevelCloseEffects(w)
    /\ UNCHANGED <<pc, next_window_id, frame_callback_requested, frame_callbacks,
                   configured, bounds, origin, callbacks, request_frame, input_returns, input_handler, inputVars,
                   fault, registryVars, queueVars>>

\* Dispatch<xdg_toplevel::XdgToplevel, WaylandWindowId>: ConfigureBounds and
\* WmCapabilities.  Neither arm looks the window up.
XdgToplevelIgnored(w, type) ==
    /\ Dispatching
    /\ w \in Created
    /\ ev' = Event(type, w, 0, 0, w \notin windows)
    /\ out' = <<>>
    /\ UNCHANGED <<pc, clientState, fault, queueVars>>

XdgToplevelConfigureBounds(w) == XdgToplevelIgnored(w, "xdg_toplevel_configure_bounds")

XdgToplevelWmCapabilities(w) == XdgToplevelIgnored(w, "xdg_toplevel_wm_capabilities")

\* ------------------------------------------------------------- xdg_wm_base

\* A pong that does not echo the ping's serial.
PingEffects_NoSerial(serial) == << Did("pong", NoWindow, 0, 0) >>

\* The answer to a ping.
PingEffects(serial) == << Did("pong", NoWindow, serial, 0) >>

\* Dispatch<xdg_wm_base::XdgWmBase, ()>: Ping.
XdgWmBasePing(serial) ==
    /\ Dispatching
    /\ ev' = Event("ping", NoWindow, serial, 0, FALSE)
    /\ out' = PingEffects(serial)
    /\ UNCHANGED <<pc, clientState, fault, queueVars>>

\* ------------------------------------------------ wl_registry and wl_seat

\* Every global bound as a seat, whatever its interface.
RegistryBindsSeat_Any(interface) == TRUE

\* The one interface the Global arm acts on.
RegistryBindsSeat(interface) == interface = "wl_seat"

\* Dispatch<wl_registry::WlRegistry, GlobalListContents>: Global.
RegistryGlobal(interface) ==
    /\ Dispatching
    /\ ev' = Event("registry_global", NoWindow, interface, 0, FALSE)
    /\ IF RegistryBindsSeat(interface)
       THEN /\ seats < MaxSeats
            /\ seats' = seats + 1
            /\ out' = << Did("bind_seat", NoWindow, seats + 1, 0) >>
       ELSE /\ seats' = seats
            /\ out' = <<>>
    /\ UNCHANGED <<pc, windowVars, inputVars, seat_keyboards, seat_pointers,
                   quit_requested, fault, queueVars>>

\* Dispatch<wl_registry::WlRegistry, GlobalListContents>: GlobalRemove.
RegistryGlobalRemove ==
    /\ Dispatching
    /\ ev' = Event("registry_global_remove", NoWindow, 0, 0, FALSE)
    /\ out' = <<>>
    /\ UNCHANGED <<pc, clientState, fault, queueVars>>

\* The requests of the Capabilities arm, in order.
SeatCapabilitiesEffects(seat, capabilities) ==
    (IF "Keyboard" \in capabilities
     THEN << Did("get_keyboard", NoWindow, seat, 0) >> ELSE <<>>)
    \o (IF "Pointer" \in capabilities
        THEN << Did("get_pointer", NoWindow, seat, 0) >> ELSE <<>>)

\* Dispatch<wl_seat::WlSeat, ()>: Capabilities, for a seat that was bound.
SeatCapabilities(seat, capabilities) ==
    /\ Dispatching
    /\ seat \in 1..seats
    /\ LET keyboards == IF "Keyboard" \in capabilities THEN 1 ELSE 0
           pointers == IF "Pointer" \in capabilities THEN 1 ELSE 0
       IN /\ seat_keyboards[seat] + keyboards <= MaxProxies
          /\ seat_pointers[seat] + pointers <= MaxProxies
          /\ seat_keyboards' = [seat_keyboards EXCEPT ![seat] = @ + keyboards]
          /\ seat_pointers' = [seat_pointers EXCEPT ![seat] = @ + pointers]
    /\ ev' = Event("seat_capabilities", NoWindow, seat, capabilities, FALSE)
    /\ out' = SeatCapabilitiesEffects(seat, capabilities)
    /\ UNCHANGED <<pc, windowVars, inputVars, seats, quit_requested, fault,
                   queueVars>>

\* ------------------------------------------------------------- wl_keyboard

\* The Enter arms taking the surface of the event for a window of the table.
WindowOfSurface_Any(surface, focused) == surface

\* The window whose surface an Enter event names, as the loop over the
\* Window Table finds it: none when the surface's window is not in the table.
WindowOfSurface(surface, focused) ==
    IF surface \in windows THEN surface ELSE focused

\* Dispatch<wl_keyboard::WlKeyboard, ()>: Keymap.  A format the protocol
\* enum does not know arrives as WEnum::Unknown, matches no arm's pattern
\* and ends in the catch-all arm.
KeyboardKeymap(format) ==
    /\ Dispatching
    /\ IF format = "Unknown"
       THEN /\ ev' = Event("keyboard_keymap", NoWindow, format, 0, FALSE)
            /\ out' = <<>>
            /\ UNCHANGED <<pc, clientState, fault, queueVars>>
       ELSE IF format # "XkbV1"
       THEN Panic("assert", Event("keyboard_keymap", NoWindow, format, 0, FALSE), <<>>)
       ELSE /\ keymap_state' = TRUE
            /\ xkb_state' = NoMasks
            /\ ev' = Event("keyboard_keymap", NoWindow, format, 0, FALSE)
            /\ out' = <<>>
            /\ UNCHANGED <<pc, windowVars, mouse_focused_window,
                           keyboard_focused_window, mouse_location, modifiers,
                           button_pressed, scroll_direction, quit_requested, fault,
                           registryVars, queueVars>>

\* Dispatch<wl_keyboard::WlKeyboard, ()>: Enter.
KeyboardEnter(surface) ==
    /\ Dispatching
    /\ surface \in Created
    /\ keyboard_focused_window' = WindowOfSurface(surface, keyboard_focused_window)
    /\ ev' = Event("keyboard_enter", surface, 0, 0, surface \notin windows)
    /\ out' = <<>>
    /\ UNCHANGED <<pc, windowVars, mouse_focused_window, mouse_location,
                   keymap_state, xkb_state, modifiers, button_pressed,
                   scroll_direction, quit_requested, fault, registryVars, queueVars>>

\* Dispatch<wl_keyboard::WlKeyboard, ()>: Leave.
KeyboardLeave ==
    /\ Dispatching
    /\ ev' = Event("keyboard_leave", NoWindow, 0, 0, FALSE)
    /\ out' = <<>>
    /\ UNCHANGED <<pc, clientState, fault, queueVars>>

\* The xkb modifier each flag of Modifiers is read from: MOD_NAME_SHIFT,
\* MOD_NAME_ALT, MOD_NAME_CTRL, MOD_NAME_LOGO.
ModifierOfFlag ==
    [shift |-> "Shift", alt |-> "Mod1", control |-> "Control", command |-> "Mod4"]

\* An update_mask that adds the event's masks to the ones the state holds.
update_mask_Accumulate(mods_depressed, mods_latched, mods_locked, group) ==
    [depressed |-> xkb_state.depressed \cup mods_depressed,
     latched |-> xkb_state.latched \cup mods_latched,
     locked |-> xkb_state.locked \cup mods_locked,
     group |-> group]

\* keymap_state.update_mask(depressed, latched, locked, 0, 0, group): the
\* state's masks are replaced by the event's.
update_mask(mods_depressed, mods_latched, mods_locked, group) ==
    [depressed |-> mods_depressed, latched |-> mods_latched,
     locked |-> mods_locked, group |-> group]

\* mod_name_is_active(name, STATE_MODS_EFFECTIVE) for the four flags.
ModifierFlags(state) ==
    {flag \in DOMAIN ModifierOfFlag :
        ModifierOfFlag[flag] \in state.depressed \cup state.latched \cup state.locked}

\* An unwrap that goes on with an absent value.
UnwrapFails_Never(present) == FALSE

\* Option::unwrap of state.keymap_state: it panics when the value is None.
UnwrapFails(present) == ~present

\* Dispatch<wl_keyboard::WlKeyboard, ()>: Modifiers.  The event record
\* carries the four values of the event.
KeyboardModifiers(mods_depressed, mods_latched, mods_locked, group) ==
    /\ Dispatching
    /\ ev' = Event("keyboard_modifiers", NoWindow,
                   [depressed |-> mods_depressed, latched |-> mods_latched,
                    locked |-> mods_locked, group |-> group],
                   0, FALSE)
    /\ IF UnwrapFails(keymap_state)
       THEN /\ fault' = "unwrap"
            /\ out' = <<>>
            /\ UNCHANGED <<pc, clientState, queueVars>>
       ELSE /\ xkb_state' =
                   update_mask(mods_depressed, mods_latched, mods_locked, group)
            /\ modifiers' = ModifierFlags(xkb_state')
            /\ out' = <<>>
            /\ UNCHANGED <<pc, windowVars, mouse_focused_window,
                           keyboard_focused_window, mouse_location, keymap_state,
                           button_pressed, scroll_direction, quit_requested, fault,
                           registryVars, queueVars>>

\* Keystroke.ime_key: Some(key_utf8), written <<code point>>, unless the key
\* gives a control character or DEL; a key that gives no text (0) has
\* Some("").
ImeKey(key_utf32) ==
    IF key_utf32 = 0 \/ (key_utf32 >= 32 /\ key_utf32 # 127)
    THEN << key_utf32 >> ELSE <<>>

\* The PlatformInput of a key event.
KeyInput(key, key_state) ==
    IF key_state = "Pressed"
    THEN [PlatformInput("KeyDown", <<0, 0>>) EXCEPT
              !.modifiers = modifiers, !.is_held = FALSE, !.ime_key = ImeKey(key)]
    ELSE [PlatformInput("KeyUp", <<0, 0>>) EXCEPT
              !.modifiers = modifiers, !.ime_key = ImeKey(key)]

\* The Key arm dispatching to the window under the pointer.
KeyboardKeyEffects_MouseFocus(key, key_state) ==
    IF mouse_focused_window = NoWindow THEN <<>>
    ELSE handle_input(mouse_focused_window, KeyInput(key, key_state))

\* What the Key arm dispatches.
KeyboardKeyEffects(key, key_state) ==
    IF keyboard_focused_window = NoWindow THEN <<>>
    ELSE handle_input(keyboard_focused_window, KeyInput(key, key_state))

\* Dispatch<wl_keyboard::WlKeyboard, ()>: Key.
KeyboardKey(key, key_state) ==
    /\ Dispatching
    /\ IF UnwrapFails(keymap_state)
       THEN Panic("unwrap", Event("keyboard_key", NoWindow, key_state, key, FALSE), <<>>)
       ELSE /\ ev' = Event("keyboard_key", NoWindow, key_state, key, FALSE)
            /\ out' = KeyboardKeyEffects(key, key_state)
            /\ UNCHANGED <<pc, clientState, fault, queueVars>>

\* -------------------------------------------------------------- wl_pointer

\* Dispatch<wl_pointer::WlPointer, ()>: Enter.
PointerEnter(surface, position) ==
    /\ Dispatching
    /\ surface \in Created
    /\ mouse_focused_window' = WindowOfSurface(surface, mouse_focused_window)
    /\ mouse_location' = position
    /\ ev' = Event("pointer_enter", surface, position[1], position[2],
                   surface \notin windows)
    /\ out' = <<>>
    /\ UNCHANGED <<pc, windowVars, keyboard_focused_window, keymap_state,
                   xkb_state, modifiers, button_pressed, scroll_direction,
                   quit_requested, fault, registryVars, queueVars>>

\* The MouseMoveEvent of the Motion arm.
MotionInput(position) ==
    [PlatformInput("MouseMove", position) EXCEPT
         !.button = button_pressed, !.modifiers = modifiers]

\* The Motion arm reporting the location cached before the event.
PointerMotionEffects_CachedLocation(position) ==
    IF mouse_focused_window = NoWindow THEN <<>>
    ELSE handle_input(mouse_focused_window, MotionInput(mouse_location))

\* What the Motion arm dispatches.
PointerMotionEffects(position) ==
    IF mouse_focused_window = NoWindow THEN <<>>
    ELSE handle_input(mouse_focused_window, MotionInput(position))

\* Dispatch<wl_pointer::WlPointer, ()>: Motion.
PointerMotion(position) ==
    /\ Dispatching
    /\ mouse_location' = IF mouse_focused_window = NoWindow
                         THEN mouse_location ELSE position
    /\ ev' = Event("pointer_motion", NoWindow, position[1], position[2], FALSE)
    /\ out' = PointerMotionEffects(position)
    /\ UNCHANGED <<pc, windowVars, mouse_focused_window, keyboard_focused_window,
                   keymap_state, xkb_state, modifiers, button_pressed,
                   scroll_direction, quit_requested, fault, registryVars, queueVars>>

\* Whether linux_button_to_gpui maps the button code (0x110, 0x111, 0x112).
linux_button_to_gpui(button) == button \in {"Left", "Right", "Middle"}

\* The MouseDownEvent / MouseUpEvent of the Button arm.
ButtonInput(button, button_state) ==
    IF button_state = "Pressed"
    THEN [PlatformInput("MouseDown", mouse_location) EXCEPT
              !.button = button, !.modifiers = modifiers, !.click_count = 1]
    ELSE [PlatformInput("MouseUp", mouse_location) EXCEPT
              !.button = button, !.modifiers = {}, !.click_count = 1]

\* Dispatch<wl_pointer::WlPointer, ()>: Button.  A press converts the button
\* before it stores it; a release clears the stored button before it
\* converts the event's.
PointerButton(button, button_state) ==
    /\ Dispatching
    /\ ev' = Event("pointer_button", NoWindow, button, button_state, FALSE)
    /\ IF mouse_focused_window = NoWindow \/ mouse_location = NoLocation
       THEN /\ out' = <<>>
            /\ UNCHANGED <<button_pressed, fault>>
       ELSE /\ button_pressed' =
                   IF button_state = "Released" THEN "None"
                   ELSE IF linux_button_to_gpui(button) THEN button
                   ELSE button_pressed
            /\ fault' = IF linux_button_to_gpui(button) THEN fault ELSE "unimplemented"
            /\ out' = IF linux_button_to_gpui(button)
                      THEN handle_input(mouse_focused_window,
                                        ButtonInput(button, button_state))
                      ELSE <<>>
    /\ UNCHANGED <<pc, windowVars, mouse_focused_window, keyboard_focused_window,
                   mouse_location, keymap_state, xkb_state, modifiers,
                   scroll_direction, quit_requested, registryVars, queueVars>>

\* The multiplier the AxisRelativeDirection arm stores.
ScrollDirection(direction) ==
    IF direction = "Identical" THEN -1
    ELSE IF direction = "Inverted" THEN 1
    ELSE -1

\* Dispatch<wl_pointer::WlPointer, ()>: AxisRelativeDirection.
PointerAxisRelativeDirection(direction) ==
    /\ Dispatching
    /\ scroll_direction' = ScrollDirection(direction)
    /\ ev' = Event("pointer_axis_relative_direction", NoWindow, direction, 0, FALSE)
    /\ out' = <<>>
    /\ UNCHANGED <<pc, windowVars, mouse_focused_window, keyboard_focused_window,
                   mouse_location, keymap_state, xkb_state, modifiers,
                   button_pressed, quit_requested, fault, registryVars, queueVars>>

\* The Axis arm with the two components exchanged.
ScrollDelta_Swapped(axis, value) ==
    IF axis = "VerticalScroll" THEN <<value, 0>> ELSE <<0, value>>

\* ScrollDelta::Pixels of the Axis arm, as <<x, y>>.
ScrollDelta(axis, value) ==
    IF axis = "VerticalScroll" THEN <<0, value>> ELSE <<value, 0>>

\* The ScrollWheelEvent of the Axis arm.
AxisInput(axis, value) ==
    [PlatformInput("ScrollWheel", mouse_location) EXCEPT
         !.delta = ScrollDelta(axis, value * scroll_direction),
         !.modifiers = modifiers]

\* Dispatch<wl_pointer::WlPointer, ()>: Axis.
PointerAxis(axis, value) ==
    /\ Dispatching
    /\ ev' = Event("pointer_axis", NoWindow, axis, value, FALSE)
    /\ out' = IF mouse_focused_window = NoWindow \/ mouse_location = NoLocation
              THEN <<>>
              ELSE handle_input(mouse_focused_window, AxisInput(axis, value))
    /\ UNCHANGED <<pc, clientState, fault, queueVars>>

\* The Leave arm reporting the pressed button and the current modifiers.
PointerLeaveEffects_Current ==
    IF mouse_focused_window = NoWindow THEN <<>>
    ELSE handle_input(mouse_focused_window, MotionInput(<<0, 0>>))

\* What the Leave arm dispatches: a move at Point::default() with no
\* pressed button and Modifiers::default().
PointerLeaveEffects ==
    IF mouse_focused_window = NoWindow THEN <<>>
    ELSE handle_input(mouse_focused_window, PlatformInput("MouseMove", <<0, 0>>))

\* Dispatch<wl_pointer::WlPointer, ()>: Leave.
PointerLeave ==
    /\ Dispatching
    /\ mouse_focused_window' = NoWindow
    /\ mouse_location' = NoLocation
    /\ ev' = Event("pointer_leave", NoWindow, 0, 0, FALSE)
    /\ out' = PointerLeaveEffects
    /\ UNCHANGED <<pc, windowVars, keyboard_focused_window, keymap_state,
                   xkb_state, modifiers, button_pressed, scroll_direction,
                   quit_requested, fault, registryVars, queueVars>>

\* ----------------------------------------------------------- specification

\* The event loop of LinuxPlatform::run around the Wayland source.
EventLoop ==
    \/ Run
    \/ DispatchPending
    \/ DispatchReturn
    \/ RunnableWakeup
    \/ LoopCallback

\* Configure / ack / frame-callback handshake of each window, and its close.
NextFrames ==
    \/ EventLoop
    \/ \E option \in WindowBoundsOptions : open_window(option)
    \/ \E w \in WindowIds : on_callback(w, "request_frame")
    \/ \E w \in WindowIds : CallbackDone(w)
    \/ \E w \in WindowIds, serial \in Serials : XdgSurfaceConfigure(w, serial)
    \/ \E w \in WindowIds : XdgToplevelClose(w)

\* Geometry of each window: the toplevel's configure and close events, on
\* windows opened with the placeholder geometry (SpecFrames opens windows
\* with fixed bounds as well).
NextGeometry ==
    \/ EventLoop
    \/ \E option \in {"Maximized", "Fullscreen"} : open_window(option)
    \/ \E w \in WindowIds, name \in {"resize", "moved"} : on_callback(w, name)
    \/ \E w \in WindowIds, width \in ConfigureWidths, height \in ConfigureHeights :
           XdgToplevelConfigure(w, width, height)
    \/ \E w \in WindowIds : XdgToplevelClose(w)

\* The seat's devices and the keep-alive ping, over windows that open and
\* close: what the focus fields name and where input is dispatched.
NextInput ==
    \/ EventLoop
    \/ \E option \in WindowBoundsOptions : open_window(option)
    \/ \E w \in WindowIds : on_callback(w, "input")
    \/ \E w \in WindowIds : XdgToplevelClose(w)
    \/ \E serial \in Serials : XdgWmBasePing(serial)
    \/ \E format \in KeymapFormats : KeyboardKeymap(format)
    \/ \E surface \in WindowIds : KeyboardEnter(surface)
    \/ KeyboardLeave
    \/ \E key \in LetterKeys, key_state \in KeyStates : KeyboardKey(key, key_state)
    \/ \E surface \in WindowIds, position \in Positions : PointerEnter(surface, position)
    \/ \E position \in Positions : PointerMotion(position)
    \/ PointerLeave

\* The handlers of the queue's messages, each called for the message taken.
TakenPing(serial) ==
    /\ Taken(Message("ping", NoWindow, serial))
    /\ XdgWmBasePing(serial)

TakenConfigure(w, serial) ==
    /\ Taken(Message("xdg_surface_configure", w, serial))
    /\ XdgSurfaceConfigure(w, serial)

TakenClose(w) ==
    /\ Taken(Message("xdg_toplevel_close", w, 0))
    /\ XdgToplevelClose(w)

\* The keyboard of the seat: keymap, focus, modifiers and keys.
NextKeyboard ==
    \/ EventLoop
    \/ \E option \in WindowBoundsOptions : open_window(option)
    \/ \E w \in WindowIds : on_callback(w, "input")
    \/ \E format \in KeymapFormats : KeyboardKeymap(format)
    \/ \E surface \in WindowIds : KeyboardEnter(surface)
    \/ KeyboardLeave
    \/ \E mods_depressed \in DepressedMasks, mods_latched \in LatchedMasks,
          mods_locked \in LockedMasks, group \in Groups :
           KeyboardModifiers(mods_depressed, mods_latched, mods_locked, group)
    \/ \E key \in LetterKeys, key_state \in KeyStates : KeyboardKey(key, key_state)

\* The keyboard focus over windows that open and close: every keyboard
\* event, on surfaces of the table and on surfaces of closed windows.
NextFocus ==
    \/ EventLoop
    \/ open_window("Maximized")
    \/ \E w \in WindowIds : XdgToplevelClose(w)
    \/ KeyboardKeymap("XkbV1")
    \/ \E surface \in WindowIds : KeyboardEnter(surface)
    \/ KeyboardLeave
    \/ \E mods_depressed \in {{}, {"Shift"}} :
           KeyboardModifiers(mods_depressed, {}, {}, 0)
    \/ \E key \in LetterKeys, key_state \in KeyStates : KeyboardKey(key, key_state)

\* The handlers that call toolkit callbacks, with callbacks that call
\* open_window from inside the handler.
NextLocks ==
    \/ EventLoop
    \/ open_window("Maximized")
    \/ \E w \in WindowIds, name \in {"request_frame", "resize"} :
           on_callback(w, name)
    \/ \E w \in WindowIds : XdgSurfaceConfigure(w, 7)
    \/ \E w \in WindowIds : XdgToplevelConfigure(w, 640, 480)
    \/ \E w \in WindowIds : XdgSurfaceConfigureOpensWindow(w, 7, "Fixed")
    \/ \E w \in WindowIds : XdgToplevelConfigureOpensWindow(w, 640, 480, "Fixed")

\* update() and resize() with callbacks that register a callback on their
\* own window (on_request_frame, on_resize) from inside the handler.
NextCallbacks ==
    \/ EventLoop
    \/ open_window("Maximized")
    \/ \E w \in WindowIds, name \in {"request_frame", "resize", "moved"} :
           on_callback(w, name)
    \/ \E w \in WindowIds : XdgSurfaceConfigure(w, 7)
    \/ \E w \in WindowIds : CallbackDone(w)
    \/ \E w \in WindowIds : CallbackDoneRegisters(w)
    \/ \E w \in WindowIds : XdgToplevelConfigure(w, 640, 480)
    \/ \E w \in WindowIds : XdgToplevelConfigureRegisters(w, 640, 480)

\* handle_input with its input callback and its input handler: key, mouse
\* and scroll events on windows whose callback returns true or false and
\* whose handler is installed and taken away.
NextIme ==
    \/ EventLoop
    \/ open_window("Maximized")
    \/ \E w \in WindowIds, returns \in BOOLEAN : on_input(w, returns)
    \/ \E w \in WindowIds : set_input_handler(w)
    \/ \E w \in WindowIds : take_input_handler(w)
    \/ KeyboardKeymap("XkbV1")
    \/ \E surface \in WindowIds : KeyboardEnter(surface)
    \/ \E key \in Keys, key_state \in KeyStates : KeyboardKey(key, key_state)
    \/ \E surface \in WindowIds : PointerEnter(surface, <<12, 34>>)
    \/ PointerMotion(<<12, 34>>)
    \/ PointerAxis("VerticalScroll", 15)

\* The pointer of the seat, with the keyboard events that set the modifiers
\* its events carry.
NextPointer ==
    \/ EventLoop
    \/ \E option \in WindowBoundsOptions : open_window(option)
    \/ KeyboardKeymap("XkbV1")
    \/ \E mods_depressed \in {{}, {"Shift"}} :
           KeyboardModifiers(mods_depressed, {}, {}, 0)
    \/ \E surface \in WindowIds, position \in Positions : PointerEnter(surface, position)
    \/ \E position \in Positions : PointerMotion(position)
    \/ \E button \in Buttons, button_state \in ButtonStates :
           PointerButton(button, button_state)
    \/ \E direction \in Directions : PointerAxisRelativeDirection(direction)
    \/ \E axis \in Axes, value \in AxisValues : PointerAxis(axis, value)
    \/ PointerLeave

\* The seats the registry binds and the devices bound for them.
NextSeats ==
    \/ EventLoop
    \/ \E interface \in Interfaces : RegistryGlobal(interface)
    \/ \E seat \in SeatIds, capabilities \in Capabilities :
           SeatCapabilities(seat, capabilities)

\* The events no handler acts on, over windows that open and close and
\* seats that are bound.
NextRegistry ==
    \/ EventLoop
    \/ \E option \in WindowBoundsOptions : open_window(option)
    \/ \E w \in WindowIds : XdgToplevelClose(w)
    \/ \E interface \in Interfaces : RegistryGlobal(interface)
    \/ RegistryGlobalRemove
    \/ \E w \in WindowIds : XdgToplevelConfigureBounds(w)
    \/ \E w \in WindowIds : XdgToplevelWmCapabilities(w)

\* The event queue between the connection and the handlers: the batch a
\* wakeup finds pending and the handler calls dispatch_pending makes for it.
NextQueue ==
    \/ Run
    \/ RunnableWakeup
    \/ LoopCallback
    \/ open_window("Fixed")
    \/ \E batch \in Batches : SourceReadable(batch)
    \/ TakeMessage
    \/ \E serial \in Serials : TakenPing(serial)
    \/ \E w \in WindowIds : TakenConfigure(w, 7)
    \/ \E w \in WindowIds : TakenClose(w)
    \/ DispatchReturn

Next ==
    \/ NextFrames \/ NextGeometry \/ NextInput
    \/ NextKeyboard \/ NextPointer \/ NextSeats \/ NextRegistry \/ NextQueue
    \/ NextFocus \/ NextLocks \/ NextCallbacks \/ NextIme

\* Every handler and call of the model, in any interleaving.
Spec == Init /\ [][Next]_vars

\* The slices of Spec the properties are checked under: each leaves out only
\* handlers that do not write the variables its properties read.
SpecFrames == Init /\ [][NextFrames]_vars
SpecGeometry == Init /\ [][NextGeometry]_vars
SpecInput == Init /\ [][NextInput]_vars
SpecKeyboard == Init /\ [][NextKeyboard]_vars
SpecPointer == Init /\ [][NextPointer]_vars
SpecFocus == Init /\ [][NextFocus]_vars
SpecLocks == Init /\ [][NextLocks]_vars
SpecCallbacks == Init /\ [][NextCallbacks]_vars
SpecIme == Init /\ [][NextIme]_vars

\* SpecFrames with the loop kept scheduled: dispatch_pending returns once
\* its handlers are done, and the closure of event_loop.run is called after
\* the iteration.
SpecLoop ==
    Init /\ [][NextFrames]_vars /\ WF_pc(DispatchReturn) /\ WF_pc(LoopCallback)
SpecSeats == Init /\ [][NextSeats]_vars
SpecRegistry == Init /\ [][NextRegistry]_vars
SpecQueue == Init /\ [][NextQueue]_vars

\* -------------------------------------------------------------- properties

\* The positions of `out` that hold an entry with this op.
Where(op) == {i \in 1..Len(out) : out[i].op = op}

\* What a handler can deliver to the toolkit: callbacks and input.
DeliveryOps ==
    {"cb.request_frame", "cb.resize", "cb.moved", "cb.input",
     "handle_input.KeyDown", "handle_input.KeyUp", "handle_input.MouseMove",
     "handle_input.MouseDown", "handle_input.MouseUp", "handle_input.ScrollWheel"}

\* The events that carry a WaylandWindowId as their user data.
WindowEventTypes ==
    {"callback_done", "xdg_surface_configure", "xdg_toplevel_configure",
     "xdg_toplevel_close"}

\* C1: over open_window, xdg_surface configure and frame done events, no
\* window ever has more than one frame callback requested and not yet done.
C1_AtMostOneFrameCallback ==
    \A w \in WindowIds : frame_callbacks[w] <= 1

\* A later configure found a frame callback outstanding and requested none.
C1_Witness ==
    /\ ev.type = "xdg_surface_configure" /\ ~ev.stale /\ ev.b = 1
    /\ Where("frame") = {}
    /\ frame_callbacks[ev.win] = 1

\* C2: the handler of an xdg_surface configure with serial s sends one
\* ack_configure, it carries s, and it precedes every commit of the handler
\* (so also every later commit).
C2_AckBeforeCommit ==
    ev.type = "xdg_surface_configure" =>
        /\ Where("ack_configure") = {1}
        /\ out[1] = Did("ack_configure", ev.win, ev.a, 0)
        /\ \A i \in Where("commit") : i > 1

\* A configure with serial 9 was acknowledged and then committed.
C2_Witness ==
    /\ ev.type = "xdg_surface_configure" /\ ev.a = 9
    /\ Where("commit") # {}

\* C3: the first xdg_surface configure of an open window, whose request-frame
\* callback is registered, does exactly: ack(s), one frame request, one call
\* of the request-frame callback, one commit.
C3_FirstConfigure ==
    ( /\ ev.type = "xdg_surface_configure" /\ ~ev.stale /\ ev.b = 0
      /\ "request_frame" \in callbacks[ev.win] ) =>
        out = << Did("ack_configure", ev.win, ev.a, 0),
                 Did("frame", ev.win, 0, 0),
                 Did("cb.request_frame", ev.win, 0, 0),
                 Did("commit", ev.win, 0, 0) >>

\* Scenario A: the first configure, serial 7, callback registered.
C3_Witness ==
    /\ ev.type = "xdg_surface_configure" /\ ~ev.stale /\ ev.b = 0 /\ ev.a = 7
    /\ "request_frame" \in callbacks[ev.win]
    /\ Len(out) = 4

\* C4: after a toplevel configure the stored size is never 0 in a dimension;
\* when the event's width or height is 0 the stored size and the renderer's
\* size are 1280x720 and the registered resize callback is called once, with
\* 1280x720 and scale 1.
C4_ZeroSizeFallback ==
    (ev.type = "xdg_toplevel_configure" /\ ~ev.stale) =>
        /\ bounds[ev.win][1] # 0 /\ bounds[ev.win][2] # 0
        /\ (ev.a = 0 \/ ev.b = 0) =>
            /\ bounds[ev.win] = <<1280, 720>>
            /\ out[1] = Did("update_drawable_size", ev.win, 1280, 720)
            /\ \A i \in Where("cb.resize") :
                   out[i] = [Did("cb.resize", ev.win, 1280, 720) EXCEPT !.scale = 1]
            /\ "resize" \in callbacks[ev.win] => Cardinality(Where("cb.resize")) = 1

\* A configure with width 0 and a non-zero height reached the resize callback.
C4_Witness ==
    /\ ev.type = "xdg_toplevel_configure" /\ ~ev.stale
    /\ ev.a = 0 /\ ev.b # 0
    /\ bounds[ev.win] = <<1280, 720>>
    /\ Where("cb.resize") # {}

\* C5: a close event for a window of the table leaves the table with exactly
\* one window fewer, and the toplevel's destroy request precedes the removal.
C5_CloseRemovesOne ==
    [][(ev'.type = "xdg_toplevel_close" /\ ~ev'.stale) =>
           /\ Cardinality(windows') = Cardinality(windows) - 1
           /\ Where("destroy")' = {1}
           /\ Where("windows.remove")' = {2}]_vars

\* One of two open windows was closed.
C5_Witness ==
    /\ ev.type = "xdg_toplevel_close" /\ ~ev.stale
    /\ Cardinality(windows) = 1

\* C6: the quit flag is false initially, changes only by becoming true in a
\* close that takes the table from non-empty to empty, and right after every
\* close it is true exactly when the table is empty.
C6_QuitIffEmptied ==
    /\ ~quit_requested
    /\ [](ev.type = "xdg_toplevel_close" => (quit_requested <=> windows = {}))
    /\ [][quit_requested' # quit_requested =>
              /\ quit_requested'
              /\ ev'.type = "xdg_toplevel_close"
              /\ windows # {} /\ windows' = {}]_vars
    /\ [][(ev'.type = "xdg_toplevel_close" /\ windows # {} /\ windows' = {}) =>
              quit_requested']_vars

\* Two windows were opened; the close of the second one emptied the table.
C6_Witness ==
    /\ ev.type = "xdg_toplevel_close" /\ ~ev.stale
    /\ next_window_id = 3 /\ windows = {}
    /\ quit_requested

\* C7: the focus fields, when set, name a window of the Window Table.
C7_FocusInTable ==
    /\ mouse_focused_window # NoWindow => mouse_focused_window \in windows
    /\ keyboard_focused_window # NoWindow => keyboard_focused_window \in windows

\* C8: an event whose window id is not in the Window Table is dropped: no
\* panic and nothing sent.
C8_StaleEventDropped ==
    (ev.type \in WindowEventTypes /\ ev.stale) =>
        /\ fault = "none"
        /\ out = <<>>

\* C9: once a window's close event is handled, nothing is delivered to it:
\* every callback and input a handler delivers goes to a window of the table.
C9_NothingAfterClose ==
    \A i \in 1..Len(out) :
        out[i].op \in DeliveryOps => out[i].win \in windows

\* C10: the handler of a ping with serial s sends exactly one request, a pong
\* with serial s, and does not fail, in whatever state it runs.
C10_PingPong ==
    ev.type = "ping" =>
        /\ out = << Did("pong", NoWindow, ev.a, 0) >>
        /\ fault = "none"

\* A ping, serial 9, answered while the last window is closed and the
\* keyboard focus is still set.
C10_Witness ==
    /\ ev.type = "ping" /\ ev.a = 9
    /\ out = << Did("pong", NoWindow, 9, 0) >>
    /\ windows = {} /\ next_window_id > 1
    /\ keyboard_focused_window # NoWindow

\* C11: after any sequence of capabilities events a seat has at most one
\* keyboard proxy and at most one pointer proxy (a repeated event adds none).
C11_OneProxyPerSeat ==
    \A seat \in SeatIds : seat_keyboards[seat] <= 1 /\ seat_pointers[seat] <= 1

\* C12: the scroll-direction multiplier is +1 or -1 in every reachable state,
\* and a dispatched scroll delta is the raw axis value times the multiplier.
C12_ScrollMultiplier ==
    /\ scroll_direction \in {1, -1}
    /\ ev.type = "pointer_axis" =>
           \A i \in 1..Len(out) :
               out[i].delta = ScrollDelta(ev.a, ev.b * scroll_direction)

\* C13: after a modifiers event the four modifier flags are a function of
\* the event's (depressed, latched, locked, group) alone: each flag is true
\* exactly when its modifier is in one of the event's three masks.
C13_ModifiersFromEvent ==
    (ev.type = "keyboard_modifiers" /\ fault = "none") =>
        LET effective == ev.a.depressed \cup ev.a.latched \cup ev.a.locked IN
        /\ modifiers \subseteq {"shift", "alt", "control", "command"}
        /\ "shift" \in modifiers <=> "Shift" \in effective
        /\ "alt" \in modifiers <=> "Mod1" \in effective
        /\ "control" \in modifiers <=> "Control" \in effective
        /\ "command" \in modifiers <=> "Mod4" \in effective

\* Control+Logo held, Alt latched, Caps locked, group 1.
C13_Witness ==
    /\ ev.type = "keyboard_modifiers" /\ fault = "none"
    /\ ev.a = [depressed |-> {"Control", "Mod4"}, latched |-> {"Mod1"},
               locked |-> {"Lock"}, group |-> 1]
    /\ modifiers = {"alt", "control", "command"}

\* C14: a motion event at (x1, y1) while a window has the pointer delivers
\* exactly one mouse-move to that window, with position (x1, y1), the button
\* pressed at that time and the modifiers of that time.
C14_MotionDelivers ==
    [][(ev'.type = "pointer_motion" /\ mouse_focused_window # NoWindow) =>
           /\ Where("handle_input.MouseMove")' = {1}
           /\ out'[1] = [Did("handle_input.MouseMove", mouse_focused_window,
                             ev'.a, ev'.b) EXCEPT
                             !.button = button_pressed, !.modifiers = modifiers]
           /\ mouse_focused_window' = mouse_focused_window]_vars

\* Enter at (12, 34), Left pressed, Shift held, then motion to (20, 40).
C14_Witness ==
    /\ ev.type = "pointer_motion" /\ ev.a = 20 /\ ev.b = 40
    /\ Len(out) = 1
    /\ out[1].op = "handle_input.MouseMove" /\ out[1].win = mouse_focused_window
    /\ out[1].button = "Left" /\ out[1].modifiers = {"shift"}
    /\ out[1].a = 20 /\ out[1].b = 40

\* C15: a key event (handled with a keymap installed) is dropped when no
\* window has the keyboard focus; otherwise it is dispatched exactly once, as
\* a key-down for a press and a key-up for a release, with the current
\* modifiers and is_held false, and only to the keyboard-focused window.
C15_KeyToFocusedWindow ==
    (ev.type = "keyboard_key" /\ fault = "none") =>
        IF keyboard_focused_window = NoWindow
        THEN out = <<>>
        ELSE /\ Where("handle_input.KeyDown") \cup Where("handle_input.KeyUp") = {1}
             /\ out[1] = [Did(IF ev.a = "Pressed" THEN "handle_input.KeyDown"
                                                  ELSE "handle_input.KeyUp",
                              keyboard_focused_window, 0, 0) EXCEPT
                              !.modifiers = modifiers,
                              !.ime_key = out[1].ime_key]
             /\ ~out[1].is_held
             /\ \A i \in 1..Len(out) : out[i].win = keyboard_focused_window

\* A press with Shift and Alt active reached the focused window's callback.
C15_Witness ==
    /\ ev.type = "keyboard_key" /\ ev.a = "Pressed" /\ fault = "none"
    /\ Len(out) = 2
    /\ out[1].op = "handle_input.KeyDown" /\ out[2].op = "cb.input"
    /\ out[1].modifiers = {"shift", "alt"}
    /\ out[1].win = keyboard_focused_window

\* C16: a keymap event whose format is not the text format is fatal.
C16_KeymapFormatFatal ==
    (ev.type = "keyboard_keymap" /\ ev.a # "XkbV1") => fault # "none"

\* C17: the request-frame callback is invoked only by the handler of an
\* xdg_surface configure or of a frame done, for the window of that event and
\* at most once per event (so never more often than such events occur).
C17_RequestFrameOnlyOnRedraw ==
    Where("cb.request_frame") # {} =>
        /\ ev.type \in {"xdg_surface_configure", "callback_done"}
        /\ ~ev.stale
        /\ Cardinality(Where("cb.request_frame")) = 1
        /\ \A i \in Where("cb.request_frame") : out[i].win = ev.win

\* A frame done of window 2 invoked its request-frame callback.
C17_Witness ==
    /\ ev.type = "callback_done" /\ ev.win = 2
    /\ out = << Did("frame", 2, 0, 0), Did("cb.request_frame", 2, 0, 0),
                Did("commit", 2, 0, 0) >>

\* C19: open_window issues create-surface, get-shell-surface, get-toplevel
\* and the initial commit, in this order and before anything else, all for
\* the id under which the window is then in the Window Table.
C19_OpenWindowOrder ==
    ev.type = "open_window" =>
        /\ Len(out) >= 4
        /\ out[1] = Did("create_surface", ev.win, 0, 0)
        /\ out[2] = Did("get_xdg_surface", ev.win, 0, 0)
        /\ out[3] = Did("get_toplevel", ev.win, 0, 0)
        /\ out[4] = Did("commit", ev.win, 0, 0)
        /\ ev.win \in windows

\* The second window, opened fullscreen while the first is still open.
C19_Witness ==
    /\ ev.type = "open_window" /\ ev.win = 2
    /\ windows = {1, 2}
    /\ Len(out) = 5 /\ out[5].op = "set_fullscreen"

\* The events no handler acts on.
IgnoredEvent(event) ==
    \/ event.type \in {"registry_global_remove", "xdg_toplevel_configure_bounds",
                       "xdg_toplevel_wm_capabilities"}
    \/ event.type = "registry_global" /\ event.a # "wl_seat"

\* C20: a registry global of an unrecognized interface, a global-remove, a
\* toplevel configure-bounds and a toplevel wm-capabilities leave the Window
\* Table, the Seat Table, the focus fields and the quit flag as they were,
\* send nothing and raise no error.
C20_IgnoredEventsChangeNothing ==
    [][IgnoredEvent(ev') =>
           /\ UNCHANGED clientState
           /\ out' = <<>>
           /\ fault' = "none"]_vars

\* A global of an unrecognized interface, announced with a seat bound and a
\* window open, and a configure-bounds for a window already closed.
C20_Witness ==
    \/ /\ ev.type = "registry_global" /\ ev.a = "wl_output"
       /\ seats = 2 /\ windows = {1}
    \/ /\ ev.type = "xdg_toplevel_configure_bounds" /\ ev.stale

\* The handler steps of the queue's messages.
QueueEventTypes == {"ping", "xdg_surface_configure", "xdg_toplevel_close"}

\* C18: the messages a wakeup finds pending are handled in the order they
\* arrived, whatever objects they are for, and dispatch_pending returns
\* only when every one of them has been handled: what has been handled and
\* what is still queued always make up the batch, each handler step is for
\* the message last taken, and at the return the whole batch is handled.
C18_DrainInWireOrder ==
    /\ wire = handled \o pending
    /\ (ev.type \in QueueEventTypes /\ pc = "dispatch") =>
           /\ handled # <<>>
           /\ ev.type = handled[Len(handled)].type
           /\ ev.win = handled[Len(handled)].win
           /\ ev.a = handled[Len(handled)].serial
    /\ ev.type = "dispatch_return" => (handled = wire /\ pending = <<>>)

\* A batch for two objects, the xdg_wm_base and window 1's xdg_surface, was
\* handled in its order and dispatch_pending returned.
C18_Witness ==
    /\ ev.type = "dispatch_return"
    /\ wire = << Message("xdg_surface_configure", 1, 7), Message("ping", NoWindow, 9) >>
    /\ handled = wire
    /\ 1 \in configured

\* ---------------------------------------------------------------- C21
\* C21: a frame-callback done event for a window of the table re-arms in
\* this order: a new frame-callback request first, then the request-frame
\* callback once (when one is registered), then one commit; after the
\* handler exactly one frame-callback request is outstanding for the window
\* and its flag says so.
C21_DoneRearms ==
    (ev.type = "callback_done" /\ ~ev.stale) =>
        LET registered == "request_frame" \in callbacks[ev.win] IN
        /\ Len(out) = (IF registered THEN 3 ELSE 2)
        /\ out[1] = Did("frame", ev.win, 0, 0)
        /\ Where("frame") = {1}
        /\ Where("cb.request_frame") = (IF registered THEN {2} ELSE {})
        /\ Where("commit") = {Len(out)}
        /\ frame_callbacks[ev.win] = 1
        /\ frame_callback_requested[ev.win]

\* A done event handled for a window whose request-frame callback is set.
C21_Witness ==
    /\ ev.type = "callback_done"
    /\ ~ev.stale
    /\ fault = "none"
    /\ "request_frame" \in callbacks[ev.win]
    /\ Where("cb.request_frame") = {2}

\* ---------------------------------------------------------------- C22
\* C22: a toplevel configure whose resolved size is (w, h) stores (w, h) as
\* the window's size, so that content_size() returns it, tells the renderer
\* the drawable size (w, h), only then calls the resize callback with (w, h)
\* and scale 1.0, and after it the moved callback; a configure with both
\* dimensions non-zero is applied as received.
C22_ConfigureResizes ==
    (ev.type = "xdg_toplevel_configure" /\ ~ev.stale) =>
        LET w == ev.win
            width == IF ev.a = 0 \/ ev.b = 0 THEN 1280 ELSE ev.a
            height == IF ev.a = 0 \/ ev.b = 0 THEN 720 ELSE ev.b
            resized == IF "resize" \in callbacks[w] THEN 1 ELSE 0
            moved == IF "moved" \in callbacks[w] THEN 1 ELSE 0
        IN  /\ content_size(w) = << width * 10, height * 10 >>
            /\ Len(out) = 1 + resized + moved
            /\ out[1] = Did("update_drawable_size", w, width, height)
            /\ resized = 1 =>
                   out[2] = [Did("cb.resize", w, width, height)
                                EXCEPT !.scale = scale_factor]
            /\ moved = 1 => out[2 + resized] = Did("cb.moved", w, 0, 0)
            /\ (ev.a # 0 /\ ev.b # 0) => bounds[w] = << ev.a, ev.b >>

\* A configure with both dimensions non-zero handled for a window with both
\* callbacks set.
C22_Witness ==
    /\ ev.type = "xdg_toplevel_configure" /\ ~ev.stale
    /\ ev.a = 640 /\ ev.b = 480
    /\ bounds[ev.win] = << 640, 480 >>
    /\ Where("cb.resize") = {2}
    /\ Where("cb.moved") = {3}

\* ---------------------------------------------------------------- C23
\* C23: open_window with maximized (fullscreen) bounds sends exactly one
\* set-maximized (set-fullscreen) request and none of the other kind, and the
\* window's interim geometry is 500 x 500 at the origin; with fixed bounds it
\* sends neither request and the geometry is the caller's bounds, each
\* coordinate converted to integer pixels.
C23_OpenWindowBounds ==
    ev.type = "open_window" =>
        LET w == ev.win
            maximized == Cardinality(Where("set_maximized"))
            fullscreen == Cardinality(Where("set_fullscreen"))
        IN  /\ ev.option = "Maximized" =>
                /\ maximized = 1 /\ fullscreen = 0
                /\ out[Len(out)] = Did("set_maximized", w, 0, 0)
                /\ bounds[w] = << 500, 500 >> /\ origin[w] = << 0, 0 >>
            /\ ev.option = "Fullscreen" =>
                /\ maximized = 0 /\ fullscreen = 1
                /\ out[Len(out)] = Did("set_fullscreen", w, 0, 0)
                /\ bounds[w] = << 500, 500 >> /\ origin[w] = << 0, 0 >>
            /\ ev.option = "Fixed" =>
                /\ maximized = 0 /\ fullscreen = 0
                /\ bounds[w] = << 800, 600 >> /\ origin[w] = << -10, 20 >>

\* A window opened with fixed bounds after one opened maximized.
C23_Witness ==
    /\ ev.type = "open_window" /\ ev.win = 2 /\ ev.option = "Fixed"
    /\ windows = {1, 2}
    /\ bounds[1] = << 500, 500 >>
    /\ bounds[2] = << 800, 600 >>
    /\ origin[2] = << -10, 20 >>

\* ---------------------------------------------------------------- C24
\* C24: on a pointer leave a mouse-focused window first receives exactly one
\* synthetic move at the origin with no pressed button and default
\* modifiers, and nothing is dispatched when no window is mouse-focused;
\* the leave clears mouse_focused_window and the cached location, only an
\* enter sets the focus again, and a motion, button or axis event handled
\* while no window is mouse-focused dispatches nothing.
C24_LeaveClearsFocus ==
    /\ [][ev'.type = "pointer_leave" =>
             /\ mouse_focused_window' = NoWindow
             /\ mouse_location' = NoLocation
             /\ mouse_focused_window = NoWindow => out' = <<>>
             /\ mouse_focused_window # NoWindow =>
                    /\ Where("handle_input.MouseMove")' = {1}
                    /\ out'[1] = [op |-> "handle_input.MouseMove",
                                  win |-> mouse_focused_window,
                                  a |-> 0, b |-> 0, scale |-> 0,
                                  button |-> "None", modifiers |-> {},
                                  is_held |-> FALSE, click_count |-> 0,
                                  delta |-> <<0, 0>>, ime_key |-> <<>>]
                    /\ \A i \in 1..Len(out') :
                           out'[i].op \in {"handle_input.MouseMove", "cb.input"}]_vars
    /\ [][(mouse_focused_window = NoWindow /\ mouse_focused_window' # NoWindow) =>
             ev'.type = "pointer_enter"]_vars
    /\ []((ev.type \in {"pointer_motion", "pointer_button", "pointer_axis"}
            /\ mouse_focused_window = NoWindow) => out = <<>>)

\* A leave with Left pressed and Shift held: the synthetic move carries
\* neither, and the focus and the location are cleared.
C24_Witness ==
    /\ ev.type = "pointer_leave"
    /\ button_pressed = "Left" /\ modifiers = {"shift"}
    /\ Where("handle_input.MouseMove") = {1}
    /\ out[1].button = "None" /\ out[1].modifiers = {}
    /\ mouse_focused_window = NoWindow /\ mouse_location = NoLocation

\* ---------------------------------------------------------------- C25
\* C25: a button press (handled with a mouse-focused window and a cached
\* location) records that button as the pressed button and dispatches a
\* mouse-down with the cached location, the current modifiers and click
\* count 1; a release clears the pressed button and dispatches a mouse-up
\* with the cached location, click count 1 and empty modifiers; a move that
\* is dispatched carries the pressed button recorded at that time, none
\* after a release.
C25_ButtonPressRelease ==
    /\ (ev.type = "pointer_button" /\ mouse_focused_window # NoWindow
            /\ mouse_location # NoLocation) =>
        /\ fault = "none"
        /\ ev.b = "Pressed" =>
            /\ button_pressed = ev.a
            /\ Where("handle_input.MouseDown") = {1}
            /\ Where("handle_input.MouseUp") = {}
            /\ out[1] = [op |-> "handle_input.MouseDown",
                         win |-> mouse_focused_window,
                         a |-> mouse_location[1], b |-> mouse_location[2],
                         scale |-> 0, button |-> ev.a, modifiers |-> modifiers,
                         is_held |-> FALSE, click_count |-> 1, delta |-> <<0, 0>>,
                         ime_key |-> <<>>]
        /\ ev.b = "Released" =>
            /\ button_pressed = "None"
            /\ Where("handle_input.MouseUp") = {1}
            /\ Where("handle_input.MouseDown") = {}
            /\ out[1] = [op |-> "handle_input.MouseUp",
                         win |-> mouse_focused_window,
                         a |-> mouse_location[1], b |-> mouse_location[2],
                         scale |-> 0, button |-> ev.a, modifiers |-> {},
                         is_held |-> FALSE, click_count |-> 1, delta |-> <<0, 0>>,
                         ime_key |-> <<>>]
    /\ (ev.type = "pointer_motion" /\ out # <<>>) => out[1].button = button_pressed

\* ---------------------------------------------------------------- C26
\* C26: an axis event is dispatched as exactly one pixel-delta scroll event
\* to the mouse-focused window, at the cached location, with the scaled
\* value (the event's value times the direction multiplier) on the vertical
\* component and 0 on the horizontal one for the vertical axis, and the
\* other way round for the horizontal axis; with no mouse-focused window or
\* no cached location nothing is dispatched.
C26_AxisScroll ==
    ev.type = "pointer_axis" =>
        IF mouse_focused_window = NoWindow \/ mouse_location = NoLocation
        THEN out = <<>>
        ELSE /\ fault = "none"
             /\ Where("handle_input.ScrollWheel") = {1}
             /\ \A i \in 1..Len(out) :
                    /\ out[i].op \in {"handle_input.ScrollWheel", "cb.input"}
                    /\ out[i].win = mouse_focused_window
                    /\ << out[i].a, out[i].b >> = mouse_location
                    /\ ev.a = "VerticalScroll" =>
                           out[i].delta = << 0, ev.b * scroll_direction >>
                    /\ ev.a = "HorizontalScroll" =>
                           out[i].delta = << ev.b * scroll_direction, 0 >>

\* A horizontal axis event of value 15 after the direction was announced
\* as inverted: the delta is (15, 0) at the cached location.
C26_Witness ==
    /\ ev.type = "pointer_axis" /\ ev.a = "HorizontalScroll" /\ ev.b = 15
    /\ scroll_direction = 1
    /\ mouse_focused_window # NoWindow
    /\ Where("handle_input.ScrollWheel") = {1}
    /\ out[1].delta = << 15, 0 >>
    /\ << out[1].a, out[1].b >> = mouse_location

\* ---------------------------------------------------------------- C27
\* C27: keyboard_focused_window changes only in a step that handles a
\* keyboard enter naming the surface of a window of the table, and it then
\* names that window; an enter for any other surface, a leave, a key, a
\* modifiers or a keymap event leaves it as it was.
C27_FocusChangesOnEnter ==
    [][/\ keyboard_focused_window' # keyboard_focused_window =>
              /\ ev'.type = "keyboard_enter"
              /\ ev'.win \in windows
       /\ (ev'.type = "keyboard_enter" /\ ev'.win \in windows) =>
              keyboard_focused_window' = ev'.win
       /\ (\/ ev'.type = "keyboard_enter" /\ ev'.win \notin windows
           \/ ev'.type \in {"keyboard_leave", "keyboard_key",
                             "keyboard_modifiers", "keyboard_keymap"}) =>
              keyboard_focused_window' = keyboard_focused_window]_vars

\* An enter for the surface of a closed window, handled while the other
\* window has the keyboard focus.
C27_Witness ==
    /\ ev.type = "keyboard_enter" /\ ev.stale
    /\ ev.win \notin windows
    /\ keyboard_focused_window \in windows
    /\ keyboard_focused_window # ev.win

\* ---------------------------------------------------------------- C28
\* C28: once the close of the last window has set the quit flag, the loop
\* eventually stops and run() returns, the loop being kept scheduled; the
\* flag is examined after each loop dispatch, and that examination does not
\* stop the loop while the flag is false.
C28_QuitStopsLoop ==
    /\ quit_requested ~> (pc = "stopped")
    /\ [][pc = "post" => pc' = IF quit_requested THEN "stopped" ELSE "poll"]_pc
    /\ [](pc = "stopped" => quit_requested)

\* ---------------------------------------------------------------- C29
\* The toolkit callbacks a handler calls.
CallbackOps == {"cb.request_frame", "cb.input", "cb.resize", "cb.moved"}

\* C29: the ClientState mutex is held for the whole of a dispatch pass, so
\* every toolkit callback a handler calls runs with it held; an open_window
\* call made from inside such a callback never acquires the mutex (the
\* thread is stuck at the lock and no surface is created); an open_window
\* call made outside a dispatch pass acquires it, inserts its window and
\* leaves the mutex free.
C29_StateLockInDispatch ==
    /\ \A i \in 1..Len(out) : out[i].op \in CallbackOps => StateLockHeld
    /\ ev.type \in {"xdg_surface_configure.open_window",
                    "xdg_toplevel_configure.open_window"} =>
          /\ fault = "deadlock"
          /\ StateLockHeld
          /\ out[Len(out)] = Did("open_window", NoWindow, 0, 0)
          /\ out[Len(out) - 1].op \in CallbackOps
          /\ Where("create_surface") = {}
          /\ Where("commit") = {}
    /\ ev.type = "open_window" =>
          /\ fault = "none"
          /\ ~StateLockHeld
          /\ ev.win \in windows
          /\ Where("create_surface") = {1}

\* The request-frame callback of window 1 called open_window while the
\* first Configure of the window was handled.
C29_Witness ==
    /\ ev.type = "xdg_surface_configure.open_window"
    /\ fault = "deadlock"
    /\ pc = "dispatch"
    /\ windows = {1}
    /\ Where("cb.request_frame") = {3}
    /\ Where("open_window") = {4}

\* ---------------------------------------------------------------- C30
\* C30: update() calls the registered request-frame callback exactly once,
\* with the callbacks lock released, so that a callback which registers a
\* callback on its window does not deadlock, and calls nothing when none is
\* registered; when update() returns, the callback registered before the
\* call is registered again, in place of the one registered during the
\* call.  resize() calls the resize and moved callbacks with the callbacks
\* lock held: a resize callback that registers a callback is stuck at the
\* lock, before the moved callback.
C30_CallbacksLock ==
    /\ [][ev'.type = "callback_done.on_request_frame" =>
             /\ fault' = "none"
             /\ request_frame[ev'.win] # NoCallback
             /\ request_frame'[ev'.win] = request_frame[ev'.win]]_vars
    /\ []((ev.type \in {"callback_done", "callback_done.on_request_frame",
                         "xdg_surface_configure"} /\ ~ev.stale) =>
            Cardinality(Where("cb.request_frame")) =
                (IF request_frame[ev.win] # NoCallback THEN 1 ELSE 0))
    /\ [](ev.type = "callback_done.on_request_frame" =>
            out = << Did("frame", ev.win, 0, 0),
                     Did("cb.request_frame", ev.win, 0, 0),
                     Did("on_request_frame", ev.win, ReplacementCallback, 0),
                     Did("commit", ev.win, 0, 0) >>)
    /\ [](ev.type = "xdg_toplevel_configure.on_resize" =>
            /\ fault = "deadlock"
            /\ Where("cb.resize") = {2}
            /\ out[Len(out)] = Did("on_resize", ev.win, 0, 0)
            /\ Where("cb.moved") = {})
    /\ [](\A w \in WindowIds :
             request_frame[w] # NoCallback <=> "request_frame" \in callbacks[w])

\* The request-frame callback of a window registered another one while it
\* ran under a Done event; the one the toolkit had registered is in place.
C30_Witness ==
    /\ ev.type = "callback_done.on_request_frame"
    /\ fault = "none"
    /\ Where("on_request_frame") = {3}
    /\ out[3].a = ReplacementCallback
    /\ request_frame[ev.win] = ToolkitCallback

\* ---------------------------------------------------------------- C31
\* The PlatformInput variants handle_input is called with.
HandleInputOps ==
    {"handle_input.KeyDown", "handle_input.KeyUp", "handle_input.MouseMove",
     "handle_input.MouseDown", "handle_input.MouseUp", "handle_input.ScrollWheel"}

\* C31: handle_input offers the event to the registered input callback
\* first; when the callback returns true nothing else happens; otherwise
\* (it returned false, or none is registered) the input handler of the
\* window gets the ime text of the event through replace_text_in_range,
\* once, exactly when the event is a key-down that has ime text and a
\* handler is installed; key-up, mouse and scroll events never reach the
\* input handler.  A key has ime text unless it gives a control character
\* or DEL.
C31_HandleInput ==
    (out # <<>> /\ out[1].op \in HandleInputOps) =>
        LET call == out[1]
            w == call.win
            registered == "input" \in callbacks[w]
            consumed == registered /\ input_returns[w]
            text == Where("replace_text_in_range")
        IN  /\ Where("cb.input") = (IF registered THEN {2} ELSE {})
            /\ registered => out[2] = [call EXCEPT !.op = "cb.input"]
            /\ consumed => Len(out) = 2
            /\ ev.type = "keyboard_key" =>
                   call.ime_key = (IF ev.b \in {0, 97} THEN << ev.b >> ELSE <<>>)
            /\ IF ~consumed /\ call.op = "handle_input.KeyDown"
                   /\ call.ime_key # <<>> /\ w \in input_handler
               THEN /\ text = {Len(out)}
                    /\ Len(out) = (IF registered THEN 3 ELSE 2)
                    /\ out[Len(out)].win = w
                    /\ out[Len(out)].ime_key = call.ime_key
               ELSE text = {}
            /\ call.op # "handle_input.KeyDown" => text = {}

\* A press of the letter a on a window whose input callback returns false
\* and whose input handler is installed: the handler gets the text.
C31_Witness ==
    /\ ev.type = "keyboard_key" /\ ev.a = "Pressed" /\ ev.b = 97
    /\ Len(out) = 3
    /\ out[2].op = "cb.input"
    /\ ~input_returns[out[1].win]
    /\ out[3].op = "replace_text_in_range"
    /\ out[3].ime_key = << 97 >>

\* ---------------------------------------------------------------- C32
\* C32: keymap_state is absent at the start, becomes present only in a step
\* that handles a keymap event, and is never cleared; a modifiers or key
\* event handled while it is absent ends in the unwrap fault, with nothing
\* dispatched, and one handled while it is present ends without fault.
C32_KeymapStateUnwrap ==
    /\ ~keymap_state
    /\ [][/\ keymap_state => keymap_state'
          /\ (~keymap_state /\ keymap_state') =>
                 (ev'.type = "keyboard_keymap" /\ ev'.a = "XkbV1")]_vars
    /\ [](ev.type \in {"keyboard_modifiers", "keyboard_key"} =>
            IF keymap_state
            THEN fault = "none"
            ELSE fault = "unwrap" /\ out = <<>> /\ modifiers = {})

\* A key press handled for a focused window before any keymap event.
C32_Witness ==
    /\ ev.type = "keyboard_key" /\ ev.a = "Pressed"
    /\ ~keymap_state
    /\ keyboard_focused_window # NoWindow
    /\ fault = "unwrap"
    /\ out = <<>>

====
